---- MODULE Spec2Model ----
(***************************************************************************)
(* Model of Deforestation/005_ExportModisMoranhao.js: an Earth Engine      *)
(* script that analyses MODIS MCD12Q1 land cover over Maranhao for six key *)
(* years and creates one Drive export task per year 2001..2024.            *)
(*                                                                         *)
(* Times are whole days since 1970-01-01 (UTC).  Areas are in hundredths   *)
(* of a km2, so the script's factor 0.25 is the integer 25.  A raster is a *)
(* finite sequence of class codes; a region is the set of pixel indices it *)
(* covers.                                                                 *)
(***************************************************************************)
EXTENDS Integers, Sequences, FiniteSets, TLC

VARIABLES
    collection,  \* content of the catalog 'MODIS/061/MCD12Q1', ascending time
    maranhao,    \* the region of interest, as the set of pixels it covers
    pc,          \* position of the script
    ai,          \* index of the next key year to analyse
    printed,     \* console records written by analyzeLandCover
    yearList,    \* the evaluated list handed to the evaluate callback
    ei,          \* index of the next year to export
    tasks,       \* export tasks created so far, with their remote state
    calls        \* direct invocations of exportYear: <<year, accepted>>

vars == <<collection, maranhao, pc, ai, printed, yearList, ei, tasks, calls>>

----------------------------------------------------------------------------
\* Bounds of the model.

\* pixels per raster in the enumerated rasters
NumPixels == 2
\* frames removed from or added to the one-frame-per-year catalog
MaxEdits == 1
\* direct invocations of exportYear
MaxSubmissions == 3
\* jobs the remote backend ends during a run
MaxFinished == 1
\* the side of the scenario raster
GridSide == 4

----------------------------------------------------------------------------
\* Program constants.

FirstYear == 2001
LastYear == 2024
ScaleMeters == 500
\* 0.25 km2, in hundredths of a km2
PixelFactor == 25

ClassCodes == 1 .. 17

KeyYears == <<2001, 2005, 2010, 2015, 2020, 2024>>

----------------------------------------------------------------------------
\* Calendar arithmetic of ee.Date (UTC, proleptic Gregorian).

IsLeap(y) == (y % 4 = 0 /\ y % 100 # 0) \/ y % 400 = 0

\* days from 1970-01-01 to y-01-01
DaysBeforeYear(y) ==
    365 * (y - 1970) + ((y - 1969) \div 4) - ((y - 1901) \div 100)
        + ((y - 1601) \div 400)

DaysInMonth(y, m) ==
    IF m = 2 THEN (IF IsLeap(y) THEN 29 ELSE 28)
    ELSE IF m \in {4, 6, 9, 11} THEN 30 ELSE 31

RECURSIVE DaysBeforeMonth(_, _)
DaysBeforeMonth(y, m) ==
    IF m <= 1 THEN 0 ELSE DaysBeforeMonth(y, m - 1) + DaysInMonth(y, m - 1)

fromYMD(y, m, d) == DaysBeforeYear(y) + DaysBeforeMonth(y, m) + (d - 1)

RECURSIVE YearFrom(_, _)
YearFrom(t, y) ==
    IF t >= DaysBeforeYear(y + 1) THEN YearFrom(t, y + 1) ELSE y

\* the calendar year of a time
YearOf(t) == YearFrom(t, 1970 + (t \div 366))

RECURSIVE MonthFrom(_, _, _)
MonthFrom(y, doy, m) ==
    IF doy >= DaysBeforeMonth(y, m + 1) THEN MonthFrom(y, doy, m + 1) ELSE m

MonthOf(t) == MonthFrom(YearOf(t), t - DaysBeforeYear(YearOf(t)), 1)

DayOf(t) ==
    t - DaysBeforeYear(YearOf(t)) - DaysBeforeMonth(YearOf(t), MonthOf(t)) + 1

Min(a, b) == IF a <= b THEN a ELSE b

\* a year advance that ignores leap years
advanceYearFixed(t, n) == t + 365 * n

\* date.advance(n, 'year'): same month and day n years later (day clamped)
advanceYear(t, n) ==
    fromYMD(YearOf(t) + n, MonthOf(t),
            Min(DayOf(t), DaysInMonth(YearOf(t) + n, MonthOf(t))))

----------------------------------------------------------------------------
\* Image collections: sequences of frames [id, time, val], ascending time.

\* what first() yields on an empty collection
NullImage == [ok |-> FALSE, id |-> 0, time |-> 0, val |-> <<>>, mask |-> <<>>]

AsImage(f) ==
    [ok |-> TRUE, id |-> f.id, time |-> f.time, val |-> f.val,
     mask |-> [i \in 1 .. Len(f.val) |-> 1]]

\* collection.filterDate(start, end): start inclusive, end exclusive
filterDate(coll, start, end) ==
    SelectSeq(coll, LAMBDA f : start <= f.time /\ f.time < end)

\* a calendar filter that also lets the following year through
calendarRangeWide(coll, startYear, endYear) ==
    SelectSeq(coll, LAMBDA f :
        startYear <= YearOf(f.time) /\ YearOf(f.time) <= endYear + 1)

\* collection.filter(ee.Filter.calendarRange(start, end, 'year'))
calendarRange(coll, startYear, endYear) ==
    SelectSeq(coll, LAMBDA f :
        startYear <= YearOf(f.time) /\ YearOf(f.time) <= endYear)

\* collection.first()
first(coll) == IF Len(coll) = 0 THEN NullImage ELSE AsImage(coll[1])

\* image.clip(geometry): pixels outside the geometry are masked
clip(image, geometry) ==
    IF ~image.ok THEN image
    ELSE [image EXCEPT !.mask =
            [i \in 1 .. Len(image.val) |->
                IF i \in geometry THEN image.mask[i] ELSE 0]]

\* '2001-01-01'
mcd12Start == fromYMD(2001, 1, 1)

\* '2024-12-31'
mcd12End == fromYMD(2024, 12, 31)

\* var mcd12 = ee.ImageCollection(..).select('LC_Type1').filterDate(..)
mcd12 == filterDate(collection, mcd12Start, mcd12End)

----------------------------------------------------------------------------
\* Pixel algebra of ee.Image: values with a mask, pixel by pixel.

\* image.gte(k)
gte(image, k) ==
    [image EXCEPT !.val =
        [i \in 1 .. Len(image.val) |-> IF image.val[i] >= k THEN 1 ELSE 0]]

\* image.lte(k)
lte(image, k) ==
    [image EXCEPT !.val =
        [i \in 1 .. Len(image.val) |-> IF image.val[i] <= k THEN 1 ELSE 0]]

\* image.eq(k)
eq(image, k) ==
    [image EXCEPT !.val =
        [i \in 1 .. Len(image.val) |-> IF image.val[i] = k THEN 1 ELSE 0]]

\* a.and(b): non-zero in both; masked where either is masked
And(a, b) ==
    [a EXCEPT
        !.val = [i \in 1 .. Len(a.val) |->
                    IF a.val[i] # 0 /\ b.val[i] # 0 THEN 1 ELSE 0],
        !.mask = [i \in 1 .. Len(a.val) |-> a.mask[i] * b.mask[i]]]

\* a.or(b): non-zero in either; masked where either is masked
Or(a, b) ==
    [a EXCEPT
        !.val = [i \in 1 .. Len(a.val) |->
                    IF a.val[i] # 0 \/ b.val[i] # 0 THEN 1 ELSE 0],
        !.mask = [i \in 1 .. Len(a.val) |-> a.mask[i] * b.mask[i]]]

\* the pixels a reduceRegion over the geometry reads
Reduced(image, geometry) ==
    {i \in 1 .. Len(image.val) : i \in geometry /\ image.mask[i] = 1}

RECURSIVE SumUpTo(_, _, _)
SumUpTo(image, geometry, n) ==
    IF n = 0 THEN 0
    ELSE SumUpTo(image, geometry, n - 1)
         + (IF n \in Reduced(image, geometry) THEN image.val[n] ELSE 0)

\* image.reduceRegion({reducer: ee.Reducer.sum(), geometry: ..})
reduceSum(image, geometry) == SumUpTo(image, geometry, Len(image.val))

\* image.reduceRegion({reducer: ee.Reducer.frequencyHistogram(), ..})
frequencyHistogram(image, geometry) ==
    [c \in {image.val[i] : i \in Reduced(image, geometry)} |->
        Cardinality({i \in Reduced(image, geometry) : image.val[i] = c})]

\* var forest = image.gte(1).and(image.lte(5))
forestMask(image) == And(gte(image, 1), lte(image, 5))

\* a savanna mask that starts one class early
savannaMaskWide(image) == And(gte(image, 5), lte(image, 9))

\* var savanna = image.gte(6).and(image.lte(9))
savannaMask(image) == And(gte(image, 6), lte(image, 9))

\* a cropland mask that also takes class 13
croplandMaskWide(image) == And(gte(image, 12), lte(image, 14))

\* var cropland = image.eq(12).or(image.eq(14))
croplandMask(image) == Or(eq(image, 12), eq(image, 14))

\* an area that forgets the pixel size
areaUnscaled(count) == count

\* ee.Number(count).multiply(0.25)
areaKm2(count) == count * PixelFactor

----------------------------------------------------------------------------
\* The per-year frame selections.

\* analyzeLandCover: first frame of the calendar year, clipped
AnalysisImage(year) ==
    clip(first(calendarRange(mcd12, year, year)), maranhao)

\* exportYear: first frame in [year-01-01, (year+1)-01-01), clipped
ExportImage(year) ==
    LET startDate == fromYMD(year, 1, 1)
        endDate == advanceYear(startDate, 1)
    IN  clip(first(filterDate(mcd12, startDate, endDate)), maranhao)

----------------------------------------------------------------------------
\* analyzeLandCover(year): what the console shows for the year.

ErrorRecord(year) ==
    [year |-> year, status |-> "error", frame |-> 0, histogram |-> <<>>,
     forest |-> <<>>, savanna |-> <<>>, cropland |-> <<>>,
     forestPixelCount |-> 0, forestAreaKm2 |-> 0, savannaAreaKm2 |-> 0,
     cropAreaKm2 |-> 0]

analyzeLandCover(year) ==
    LET image == AnalysisImage(year)
        forest == forestMask(image)
        savanna == savannaMask(image)
        cropland == croplandMask(image)
        forestPixelCount == reduceSum(forest, maranhao)
    IN  IF ~image.ok THEN ErrorRecord(year)
        ELSE [year |-> year, status |-> "ok", frame |-> image.id,
              histogram |-> frequencyHistogram(image, maranhao),
              forest |-> forest.val, savanna |-> savanna.val,
              cropland |-> cropland.val,
              forestPixelCount |-> forestPixelCount,
              forestAreaKm2 |-> areaKm2(forestPixelCount),
              savannaAreaKm2 |-> areaKm2(reduceSum(savanna, maranhao)),
              cropAreaKm2 |-> areaKm2(reduceSum(cropland, maranhao))]

----------------------------------------------------------------------------
\* exportYear(year): the task handed to Export.image.toDrive.

Digit(d) == <<"0", "1", "2", "3", "4", "5", "6", "7", "8", "9">>[d + 1]

RECURSIVE numberToString(_)
\* a number as its decimal digits
numberToString(n) ==
    IF n < 10 THEN <<Digit(n)>>
    ELSE Append(numberToString(n \div 10), Digit(n % 10))

\* a name that drops the year
exportNameNoYear(year) == <<"MCD12Q1_Maranhao_">>

\* 'MCD12Q1_Maranhao_' + year
exportName(year) == <<"MCD12Q1_Maranhao_">> \o numberToString(year)

\* a submission that returns only once the remote job has completed
toDriveBlocking(ts, params) ==
    Append(ts, [id |-> Len(ts) + 1, image |-> params.image,
                description |-> params.description,
                fileNamePrefix |-> params.fileNamePrefix,
                state |-> "Completed"])

\* a submission that refuses a description it has already seen
toDriveDedupe(ts, params) ==
    IF \E i \in 1 .. Len(ts) : ts[i].description = params.description
    THEN ts
    ELSE Append(ts, [id |-> Len(ts) + 1, image |-> params.image,
                     description |-> params.description,
                     fileNamePrefix |-> params.fileNamePrefix,
                     state |-> "Submitted"])

\* Export.image.toDrive(params): a new task in the task list, returned at
\* once; running it is the backend's business
toDrive(ts, params) ==
    Append(ts, [id |-> Len(ts) + 1, image |-> params.image,
                description |-> params.description,
                fileNamePrefix |-> params.fileNamePrefix,
                state |-> "Submitted"])

exportYear(ts, year) ==
    toDrive(ts, [image |-> ExportImage(year).id,
                 description |-> exportName(year),
                 fileNamePrefix |-> exportName(year)])

\* var years = ee.List.sequence(2001, 2024)
years == [i \in 1 .. (LastYear - FirstYear + 1) |-> FirstYear + i - 1]

----------------------------------------------------------------------------
\* Catalog contents and rasters the runs start from.

RECURSIVE SubsetsUpTo(_, _)
\* the subsets of S with at most k elements
SubsetsUpTo(S, k) ==
    IF k = 0 THEN {{}}
    ELSE LET P == SubsetsUpTo(S, k - 1)
         IN  P \cup {p \cup {x} : p \in P, x \in S}

RECURSIVE SortedSeq(_)
SortedSeq(S) ==
    IF S = {} THEN <<>>
    ELSE LET m == CHOOSE x \in S : \A z \in S : x <= z
         IN  <<m>> \o SortedSeq(S \ {m})

\* the product as published: one frame per year, dated 1 January
AnnualTimes == {fromYMD(y, 1, 1) : y \in FirstYear .. LastYear}

\* other acquisition dates a catalog may hold
ExtraTimes ==
    {fromYMD(2000, 12, 31), fromYMD(2001, 12, 31), fromYMD(2010, 7, 1),
     fromYMD(2020, 12, 31), fromYMD(2024, 12, 30), fromYMD(2024, 12, 31),
     fromYMD(2025, 1, 1)}

\* catalogs with a year's frame re-dated, a year missing beside a year
\* with two frames, and a single frame
SpecialTimes ==
    {(AnnualTimes \ {fromYMD(2020, 1, 1)}) \cup {fromYMD(2020, 12, 31)},
     (AnnualTimes \ {fromYMD(2024, 1, 1)}) \cup {fromYMD(2024, 12, 31)},
     (AnnualTimes \ {fromYMD(2005, 1, 1)}) \cup {fromYMD(2001, 12, 31)},
     {fromYMD(2010, 7, 1)}}

\* the annual catalog with at most MaxEdits frames removed or added
CatalogTimes ==
    {(AnnualTimes \ E) \cup (E \ AnnualTimes) :
        E \in SubsetsUpTo(AnnualTimes \cup ExtraTimes, MaxEdits)}
    \cup SpecialTimes

Catalog(times, grid) ==
    LET ts == SortedSeq(times)
    IN  [i \in 1 .. Len(ts) |-> [id |-> i, time |-> ts[i], val |-> grid]]

\* one frame on 1 January of each analysed year
KeyTimes == {fromYMD(KeyYears[i], 1, 1) : i \in 1 .. Len(KeyYears)}

\* an all-forest raster
DefaultGrid == [i \in 1 .. NumPixels |-> 2]

\* every raster of NumPixels pixels
SmallGrids == [1 .. NumPixels -> ClassCodes]

\* GridSide x GridSide rasters: k pixels of class c, the rest of class d
ScenarioGrids ==
    {[i \in 1 .. GridSide * GridSide |-> IF i <= k THEN c ELSE d] :
        k \in 0 .. GridSide * GridSide, c \in {2, 9, 12}, d \in {13, 17}}

ScenarioRegions == {1 .. n : n \in 0 .. GridSide * GridSide}

----------------------------------------------------------------------------
\* The script.

Start ==
    /\ pc = "analyze"
    /\ ai = 1
    /\ printed = <<>>
    /\ yearList = <<>>
    /\ ei = 0
    /\ tasks = <<>>
    /\ calls = <<>>

\* the whole script, over catalogs that differ in their dates
Init ==
    /\ collection \in {Catalog(T, DefaultGrid) : T \in CatalogTimes}
    /\ maranhao = 1 .. NumPixels
    /\ Start

\* the analysis, over catalogs that differ in their rasters
InitStats ==
    /\ \/ /\ collection \in {Catalog(KeyTimes, g) : g \in SmallGrids}
          /\ maranhao \in {1 .. n : n \in 0 .. NumPixels}
       \/ /\ collection \in {Catalog(KeyTimes, g) : g \in ScenarioGrids}
          /\ maranhao \in ScenarioRegions
    /\ Start

\* the whole script on the published catalog, with the remote backend
\* running the jobs
InitBatch ==
    /\ collection = Catalog(AnnualTimes, DefaultGrid)
    /\ maranhao = 1 .. NumPixels
    /\ Start

\* exportYear called directly, with the remote backend running the jobs
InitSubmit ==
    /\ collection = Catalog(AnnualTimes, DefaultGrid)
    /\ maranhao = 1 .. NumPixels
    /\ pc = "console"
    /\ ai = Len(KeyYears) + 1
    /\ printed = <<>>
    /\ yearList = <<>>
    /\ ei = 0
    /\ tasks = <<>>
    /\ calls = <<>>

\* [2001, 2005, 2010, 2015, 2020, 2024].forEach(analyzeLandCover): one year
AnalyzeLandCover ==
    /\ pc = "analyze"
    /\ printed' = Append(printed, analyzeLandCover(KeyYears[ai]))
    /\ ai' = ai + 1
    /\ pc' = IF ai = Len(KeyYears) THEN "evaluate" ELSE "analyze"
    /\ UNCHANGED <<collection, maranhao, yearList, ei, tasks, calls>>

\* years.evaluate(callback): the callback gets the list, or undefined when
\* the evaluation failed, and then yearList.forEach throws
Evaluate ==
    /\ pc = "evaluate"
    /\ \E ok \in BOOLEAN :
        IF ok
        THEN /\ yearList' = years
             /\ ei' = 1
             /\ pc' = "export"
        ELSE /\ pc' = "aborted"
             /\ UNCHANGED <<yearList, ei>>
    /\ UNCHANGED <<collection, maranhao, ai, printed, tasks, calls>>

\* yearList.forEach(exportYear): one year; an exception thrown by the
\* submission is caught nowhere and ends the loop
ExportYear ==
    /\ pc = "export"
    /\ \E accepted \in BOOLEAN :
        IF accepted
        THEN /\ tasks' = exportYear(tasks, yearList[ei])
             /\ ei' = ei + 1
             /\ pc' = IF ei = Len(yearList) THEN "done" ELSE "export"
        ELSE /\ pc' = "aborted"
             /\ UNCHANGED <<tasks, ei>>
    /\ UNCHANGED <<collection, maranhao, ai, printed, yearList, calls>>

\* the years exportYear is called with directly
ConsoleYears == {years[i] : i \in 1 .. MaxSubmissions - 1}

\* exportYear(year) called directly
ExportYearCall ==
    /\ pc = "console"
    /\ Len(calls) < MaxSubmissions
    /\ \E year \in ConsoleYears, accepted \in BOOLEAN :
        /\ calls' = Append(calls, <<year, accepted>>)
        /\ tasks' = IF accepted THEN exportYear(tasks, year) ELSE tasks
    /\ UNCHANGED <<collection, maranhao, pc, ai, printed, yearList, ei>>

Finished(ts) == {j \in 1 .. Len(ts) : ts[j].state # "Submitted"}

\* the remote backend ends a submitted job
BackendStep ==
    /\ Cardinality(Finished(tasks)) < MaxFinished
    /\ \E j \in 1 .. Len(tasks), s \in {"Completed", "Failed", "Cancelled"} :
        /\ tasks[j].state = "Submitted"
        /\ tasks' = [tasks EXCEPT ![j].state = s]
    /\ UNCHANGED <<collection, maranhao, pc, ai, printed, yearList, ei, calls>>

Next == AnalyzeLandCover \/ Evaluate \/ ExportYear

Spec == Init /\ [][Next]_vars

NextStats == AnalyzeLandCover

SpecStats == InitStats /\ [][NextStats]_vars

NextBatch == AnalyzeLandCover \/ Evaluate \/ ExportYear \/ BackendStep

SpecBatch == InitBatch /\ [][NextBatch]_vars

NextSubmit == ExportYearCall \/ BackendStep

SpecSubmit == InitSubmit /\ [][NextSubmit]_vars

----------------------------------------------------------------------------
\* Vocabulary of the properties.

\* the frame a console record or a task refers to
FrameOf(id) == collection[id]

\* frames of mcd12 acquired in [y-01-01, (y+1)-01-01)
FramesOfYear(y) ==
    LET m == mcd12
        lo == fromYMD(y, 1, 1)
        hi == fromYMD(y + 1, 1, 1)
    IN  {i \in 1 .. Len(m) : lo <= m[i].time /\ m[i].time < hi}

\* r is a correct resolution of year y
Resolves(r, y) ==
    LET m == mcd12
        F == FramesOfYear(y)
    IN  IF F = {} THEN ~r.ok
        ELSE /\ r.ok
             /\ fromYMD(y, 1, 1) <= r.time
             /\ r.time < fromYMD(y + 1, 1, 1)
             /\ \E i \in F : m[i].id = r.id

\* the name of year y's job, digit by digit
ExpectedName(y) ==
    <<"MCD12Q1_Maranhao_", Digit(y \div 1000), Digit((y \div 100) % 10),
      Digit((y \div 10) % 10), Digit(y % 10)>>

TasksNamed(name) == {i \in 1 .. Len(tasks) : tasks[i].description = name}

\* what the run has recorded for year y: the script records export tasks
\* and nothing else
Outcome(y) == IF TasksNamed(ExpectedName(y)) # {} THEN "Exported" ELSE "None"

InFlight == {i \in 1 .. Len(tasks) : tasks[i].state = "Submitted"}

OkRecords == {i \in 1 .. Len(printed) : printed[i].status = "ok"}

\* the pixels of the analysed raster that lie in the region
RoiPixels(r) == {i \in 1 .. Len(FrameOf(r.frame).val) : i \in maranhao}

\* the region's pixels whose class code is in the group
GroupPixels(r, group) ==
    {i \in RoiPixels(r) : FrameOf(r.frame).val[i] \in group}

Forest == 1 .. 5

Savanna == 6 .. 9

Agriculture == {12, 14}

Ungrouped == {10, 11, 13, 15, 16, 17}

\* area a, in hundredths of a km2, is n pixels of (scale/1000)^2 km2 each
IsAreaOf(a, n) == a * 10000 = n * ScaleMeters * ScaleMeters

----------------------------------------------------------------------------
\* C1: a missing frame or a failed export never stops the batch run: when
\* the run has ended every year of the range has its outcome, Exported (or
\* Failed) when the year has a frame and Skipped when it has none.
C1_EveryYearHasOutcome ==
    pc = "done" =>
        \A i \in 1 .. Len(years) :
            Outcome(years[i]) =
                (IF FramesOfYear(years[i]) # {} THEN "Exported" ELSE "Skipped")

C3_GroupArea ==
    \A i \in OkRecords :
        /\ printed[i].forestPixelCount
              = Cardinality(GroupPixels(printed[i], Forest))
        /\ IsAreaOf(printed[i].forestAreaKm2,
                    Cardinality(GroupPixels(printed[i], Forest)))
        /\ IsAreaOf(printed[i].savannaAreaKm2,
                    Cardinality(GroupPixels(printed[i], Savanna)))
        /\ IsAreaOf(printed[i].cropAreaKm2,
                    Cardinality(GroupPixels(printed[i], Agriculture)))

\* a 4x4 raster with 6 region pixels of class 2: forest area 1.5 km2
C3_Witness ==
    \E i \in OkRecords :
        /\ Len(FrameOf(printed[i].frame).val) = 16
        /\ Cardinality(GroupPixels(printed[i], {2})) = 6
        /\ Cardinality(GroupPixels(printed[i], Forest)) = 6
        /\ printed[i].forestAreaKm2 = 150

\* C4: the three areas are non-negative and together at most the area of
\* the region (its pixel count times the pixel area).
C4_AreasWithinRegion ==
    \A i \in OkRecords :
        /\ printed[i].forestAreaKm2 >= 0
        /\ printed[i].savannaAreaKm2 >= 0
        /\ printed[i].cropAreaKm2 >= 0
        /\ (printed[i].forestAreaKm2 + printed[i].savannaAreaKm2
              + printed[i].cropAreaKm2) * 10000
              <= Cardinality(RoiPixels(printed[i])) * ScaleMeters * ScaleMeters

\* a region whose pixels fall into two groups and fill it
C4_Witness ==
    \E i \in OkRecords :
        /\ printed[i].forestAreaKm2 > 0
        /\ printed[i].savannaAreaKm2 > 0
        /\ IsAreaOf(printed[i].forestAreaKm2 + printed[i].savannaAreaKm2,
                    Cardinality(RoiPixels(printed[i])))

\* C5: each pixel is in at most one of the masks forest = {1..5}, savanna =
\* {6..9}, cropland = {12, 14}, and a pixel of class 10, 11, 13, 15, 16 or
\* 17 is in none of them, so it is counted in no sum.
C5_DisjointGroups ==
    \A i \in OkRecords :
        LET r == printed[i]
            val == FrameOf(r.frame).val
        IN  /\ \A p \in 1 .. Len(val) :
                /\ r.forest[p] + r.savanna[p] + r.cropland[p] <= 1
                /\ (r.forest[p] = 1) = (val[p] \in Forest)
                /\ (r.savanna[p] = 1) = (val[p] \in Savanna)
                /\ (r.cropland[p] = 1) = (val[p] \in Agriculture)
                /\ val[p] \in Ungrouped =>
                      r.forest[p] + r.savanna[p] + r.cropland[p] = 0
            /\ IsAreaOf(r.forestAreaKm2 + r.savannaAreaKm2 + r.cropAreaKm2,
                        Cardinality(GroupPixels(r, ClassCodes \ Ungrouped)))

\* a region holding a class 13 pixel beside a cropland pixel
C5_Witness ==
    \E i \in OkRecords :
        /\ GroupPixels(printed[i], {13}) # {}
        /\ GroupPixels(printed[i], {12}) # {}
        /\ IsAreaOf(printed[i].cropAreaKm2,
                    Cardinality(GroupPixels(printed[i], {12})))

\* the years of the accepted direct calls, in order
AcceptedYears ==
    LET acc == SelectSeq(calls, LAMBDA c : c[2])
    IN  [k \in 1 .. Len(acc) |-> acc[k][1]]

C7_SubmitOnly ==
    /\ [][/\ \A j \in 1 .. Len(tasks) :
                tasks'[j].state # tasks[j].state =>
                    /\ tasks[j].state = "Submitted"
                    /\ pc' = pc /\ ei' = ei /\ ai' = ai
                    /\ Len(tasks') = Len(tasks)
          /\ Len(tasks') # Len(tasks) =>
                /\ Len(tasks') = Len(tasks) + 1
                /\ tasks'[Len(tasks')].state = "Submitted"
                /\ ei' = ei + 1]_vars
    /\ [](pc = "export" => ENABLED ExportYear)

\* year 2003 is submitted while 2001's job is still running and 2002's has
\* failed
C7_Witness ==
    /\ Len(tasks) >= 3
    /\ tasks[1].state = "Submitted"
    /\ tasks[2].state = "Failed"
    /\ tasks[3].state = "Submitted"
    /\ tasks[3].description = ExpectedName(2003)

\* C8: the jobs issued and not yet finished never number all the requested
\* years, as any worker pool smaller than the range would ensure.
C8_BoundedFanOut == Cardinality(InFlight) < Len(years)

\* C9: a completed run has created exactly one job per year 2001..2024 and
\* no other; year y's job has description and file-name prefix
\* 'MCD12Q1_Maranhao_' + y, so the names are pairwise distinct.
C9_OneJobPerYear ==
    pc = "done" =>
        /\ \A y \in FirstYear .. LastYear :
            /\ Cardinality(TasksNamed(ExpectedName(y))) = 1
            /\ \A i \in TasksNamed(ExpectedName(y)) :
                  tasks[i].fileNamePrefix = ExpectedName(y)
        /\ \A i \in 1 .. Len(tasks) :
            \E y \in FirstYear .. LastYear :
                tasks[i].description = ExpectedName(y)
        /\ \A i, j \in 1 .. Len(tasks) :
            tasks[i].description = tasks[j].description => i = j
        /\ \A y, z \in FirstYear .. LastYear :
            ExpectedName(y) = ExpectedName(z) => y = z

\* a completed run over a catalog with a missing year
C9_Witness ==
    /\ pc = "done"
    /\ Len(tasks) = LastYear - FirstYear + 1
    /\ \E i \in 1 .. Len(tasks) : tasks[i].image = 0

\* C10: for every year the frame analyzeLandCover takes and the frame
\* exportYear takes are the same frame, and one is absent exactly when the
\* other is.
C10_SelectionsAgree ==
    /\ Len(printed) = 0 =>
        \A y \in (FirstYear - 1) .. (LastYear + 1) :
            AnalysisImage(y) = ExportImage(y)
    /\ \A i \in 1 .. Len(printed), j \in 1 .. Len(tasks) :
        printed[i].year = yearList[j] => printed[i].frame = tasks[j].image

\* a year analysed and exported from its second frame, the first being gone
C10_Witness ==
    \E i \in 1 .. Len(printed), j \in 1 .. Len(tasks) :
        /\ printed[i].year = yearList[j]
        /\ printed[i].frame = tasks[j].image
        /\ printed[i].status = "ok"
        /\ FrameOf(tasks[j].image).time # fromYMD(yearList[j], 1, 1)

====
